---- MODULE Spec2Model ----
(***************************************************************************)
(* Retirement calculator (src/src/App.tsx): the month-by-month projection  *)
(* engine, the required-return solver, the closed-form runway and the      *)
(* months-to-goal search.                                                  *)
(*                                                                         *)
(* Numbers.  The program computes in IEEE doubles.  Here money is an       *)
(* integer number of currency units and a monthly rate is an integer       *)
(* number of 1/RateScale units; a product W*(1+r) is rounded down to a     *)
(* whole currency unit, and Math.pow(x, 1/12) is the 12th root rounded to  *)
(* a 1/RateScale unit.  Percentages are held in tenths of a percent (the   *)
(* UI's step of 0.1).  NaN is explicit where the code can produce it.      *)
(***************************************************************************)
EXTENDS Integers, Sequences, FiniteSets, TLC

VARIABLES
  age,               \* useState(24), App.tsx:307
  retireAge,         \* useState(34), App.tsx:308
  currentWealth,     \* App.tsx:309
  monthlySaving,     \* App.tsx:310 (signed)
  monthlySpend,      \* App.tsx:311
  swrPct,            \* App.tsx:312, in tenths of a percent
  accumRealReturn,   \* App.tsx:313, in tenths of a percent
  retireRealReturn,  \* App.tsx:314, in tenths of a percent
  lumpSums,          \* App.tsx:320, a sequence of [id, month, amount]
  accumulation,      \* App.tsx:327, rows of projectToRetirement (<<>> before it ran)
  fullProjection,    \* App.tsx:340, rows of projectFullTo100 (<<>> before it ran)
  pc,                \* which computations of the render have run
  solver,            \* the call frame of solveRequiredMonthlyAccum, App.tsx:375
  required,          \* requiredAccumAnnualToHitTarget, App.tsx:404
  goalSearch,        \* the loop of monthsToGoalAtCurrentPlan, App.tsx:423
  runwayY,           \* runwayY, App.tsx:420
  lastCall,          \* the last call of addLump, updateLump or removeLump (history)
  extraMonthlyNeeded \* extraMonthlyNeeded, App.tsx:407

planVars == <<age, retireAge, currentWealth, monthlySaving, monthlySpend,
              swrPct, accumRealReturn, retireRealReturn, lumpSums>>
vars == <<age, retireAge, currentWealth, monthlySaving, monthlySpend,
          swrPct, accumRealReturn, retireRealReturn, lumpSums,
          accumulation, fullProjection, pc, solver, required,
          goalSearch, runwayY, lastCall, extraMonthlyNeeded>>

----------------------------------------------------------------------------
(* Bounds of the model and program constants *)

RateScale == 10000      \* a monthly rate is r / RateScale
MaxYears == 1           \* ages range over 100-MaxYears .. 100
MaxLumps == 2           \* longest lump-sum list
MonthsPerYear == 12     \* (retireAge - age) * 12
CenturyAge == 100       \* (100 - age) * 12

Max(a, b) == IF a >= b THEN a ELSE b
Min(a, b) == IF a <= b THEN a ELSE b
Sgn(x) == IF x > 0 THEN 1 ELSE IF x < 0 THEN -1 ELSE 0

\* a value a function returns or a variable holds: null, a number, or (for a
\* variable of the model) not yet assigned
Null == [kind |-> "null"]
Num(x) == [kind |-> "num", a |-> x]
Pending == [kind |-> "pending"]
\* the frame of a function that has not been called
Idle == [pc |-> "idle"]
\* no handler of the lump-sum list has been called
NoCall == [op |-> "none"]

----------------------------------------------------------------------------
(* Math.pow(base, 1/12) in fixed point *)

\* x^n in units of 1/RateScale, each product rounded down; for x > 1 it stops
\* multiplying once the power exceeds cap (the caller only compares with cap).
RECURSIVE PowFix(_, _, _)
PowFix(x, n, cap) ==
  IF n = 0 THEN RateScale
  ELSE LET p == PowFix(x, n - 1, cap)
       IN  IF x > RateScale /\ p > cap THEN p ELSE (p * x) \div RateScale

\* the greatest x in lo..hi with x^12 <= base
RECURSIVE RootSearch(_, _, _)
RootSearch(base, lo, hi) ==
  IF lo >= hi THEN lo
  ELSE LET mid == (lo + hi + 1) \div 2
       IN  IF PowFix(mid, MonthsPerYear, base) <= base
           THEN RootSearch(base, mid, hi)
           ELSE RootSearch(base, lo, mid - 1)

\* Math.pow(base, 1/12) for base >= 0, base and result in units of 1/RateScale
Root12Fix(base) ==
  IF base = 0 THEN 0
  ELSE RootSearch(base, Min(base, RateScale),
                  RateScale + Max(0, base - RateScale) \div MonthsPerYear + 1)

\* monthlyRateFromRealAnnual(realAnnualPct), pct in tenths of a percent and
\* above -100%; the result in units of 1/RateScale
monthlyRateFromRealAnnual(realAnnualPct) ==
  Root12Fix(RateScale + (realAnnualPct * RateScale) \div 1000) - RateScale

----------------------------------------------------------------------------
(* Lump-sum schedule and the projections *)

\* a clip that forgets the upper end of the range
ClipMonthNoUpper(month, months) == Max(0, month)

\* Math.max(0, Math.min(months, Math.floor(ls.month))); months are integers here
ClipMonth(month, months) == Max(0, Min(months, month))

\* the value the first loop leaves in byMonth under key m (0 when no lump sum
\* is clipped to m): byMonth.set(m, (byMonth.get(m) || 0) + amount)
RECURSIVE BucketSum(_, _, _)
BucketSum(lumps, months, m) ==
  IF lumps = <<>> THEN 0
  ELSE (IF ClipMonth(Head(lumps).month, months) = m THEN Head(lumps).amount ELSE 0)
       + BucketSum(Tail(lumps), months, m)

\* byMonth.get(k) || 0 for the map built with horizon `months`
ByMonthGet(lumps, months, k) == BucketSum(lumps, months, k)

\* W * (1 + rate), rounded down to a currency unit
MulRate(W, rate) == (W * (RateScale + rate)) \div RateScale

\* a step that applies the return with the wrong sign
AccumStepWrongSign(W, rate, saving, oneOff) == MulRate(W, 0 - rate) + saving + oneOff

\* W = W * (1 + monthlyRealReturn) + monthlySaving + oneOff
AccumStep(W, rate, saving, oneOff) == MulRate(W, rate) + saving + oneOff

\* a step that adds the spend
DecumStepAddsSpend(W, rate, spend) == MulRate(W, rate) + spend

\* W = W * (1 + monthlyRetireReturn) - monthlySpend
DecumStep(W, rate, spend) == MulRate(W, rate) - spend

RECURSIVE RetireLoop(_, _, _, _, _, _, _)

\* a loop that stops one row early (t < months)
RetireLoopOneShort(t, W, rows, saving, months, rate, lumps) ==
  IF t >= months THEN rows
  ELSE RetireLoop(t + 1,
                  AccumStep(W, rate, saving, ByMonthGet(lumps, months, t + 1)),
                  Append(rows, [m |-> t, wealth |-> W]),
                  saving, months, rate, lumps)

\* the loop of projectToRetirement from iteration t on
RetireLoop(t, W, rows, saving, months, rate, lumps) ==
  IF t > months THEN rows
  ELSE RetireLoop(t + 1,
                  AccumStep(W, rate, saving, ByMonthGet(lumps, months, t + 1)),
                  Append(rows, [m |-> t, wealth |-> W]),
                  saving, months, rate, lumps)

projectToRetirement(cw, saving, months, rate, lumps) ==
  RetireLoop(0, cw, <<>>, saving, months, rate, lumps)

\* a step that leaves the lump sums out
FullNextWNoLumps(t, W, mtr, saving, accRate, retRate, spend, lumps) ==
  IF t < mtr THEN AccumStep(W, accRate, saving, 0) ELSE DecumStep(W, retRate, spend)

\* a step that floors the running value itself before advancing it
FullNextWFloored(t, W, mtr, saving, accRate, retRate, spend, lumps) ==
  IF t < mtr
  THEN AccumStep(Max(0, W), accRate, saving, ByMonthGet(lumps, mtr, t + 1))
  ELSE DecumStep(Max(0, W), retRate, spend)

\* the value of W the loop of projectFullTo100 computes at the end of iteration t
FullNextW(t, W, mtr, saving, accRate, retRate, spend, lumps) ==
  IF t < mtr
  THEN AccumStep(W, accRate, saving, ByMonthGet(lumps, mtr, t + 1))
  ELSE DecumStep(W, retRate, spend)

\* the loop of projectFullTo100 from iteration t on
RECURSIVE FullLoop(_, _, _, _, _, _, _, _, _, _)
FullLoop(t, W, rows, monthsTo100, mtr, saving, accRate, retRate, spend, lumps) ==
  IF t > monthsTo100 THEN rows
  ELSE FullLoop(t + 1,
                FullNextW(t, W, mtr, saving, accRate, retRate, spend, lumps),
                Append(rows, [m |-> t, wealth |-> Max(0, W)]),
                monthsTo100, mtr, saving, accRate, retRate, spend, lumps)

\* the values of the loop variable W of projectFullTo100 at the start of
\* iterations t, t+1, ..., monthsTo100 (what Math.max(0, W) is applied to)
RECURSIVE FullTraceLoop(_, _, _, _, _, _, _, _, _, _)
FullTraceLoop(t, W, ws, monthsTo100, mtr, saving, accRate, retRate, spend, lumps) ==
  IF t > monthsTo100 THEN ws
  ELSE FullTraceLoop(t + 1,
                     FullNextW(t, W, mtr, saving, accRate, retRate, spend, lumps),
                     Append(ws, W),
                     monthsTo100, mtr, saving, accRate, retRate, spend, lumps)

MonthsTo100(a) == Max(0, (CenturyAge - a) * MonthsPerYear)

projectFullTo100(a, cw, mtr, saving, accRate, retRate, spend, lumps) ==
  FullLoop(0, cw, <<>>, MonthsTo100(a), mtr, saving, accRate, retRate, spend, lumps)

FullTrace(a, cw, mtr, saving, accRate, retRate, spend, lumps) ==
  FullTraceLoop(0, cw, <<>>, MonthsTo100(a), mtr, saving, accRate, retRate, spend, lumps)

----------------------------------------------------------------------------
(* Values the App derives from its state on every render *)

monthsToRetire == Max(0, (retireAge - age) * MonthsPerYear)
monthsTo100 == MonthsTo100(age)
monthlyAccum == monthlyRateFromRealAnnual(accumRealReturn)
monthlyRetire == monthlyRateFromRealAnnual(retireRealReturn)

\* accumulation[accumulation.length - 1]?.wealth ?? currentWealth
LastWealth(rows, dflt) == IF rows = <<>> THEN dflt ELSE rows[Len(rows)].wealth

----------------------------------------------------------------------------
(* Input sets *)

Ages == (CenturyAge - MaxYears)..CenturyAge
RetireAges(a) == (a - 1)..(a + MaxYears + 1)
WealthChoices == {0, 1000}
SavingChoices == {-200, -50, 150}
SpendChoices == {0, 400}
ReturnChoices == {-500, 50, 1000}
LumpMonths == {-5, 3, 62}
LumpAmounts == {300}

\* lists as addLump/updateLump build them: ids 1..n in order
LumpLists ==
  UNION { { [i \in 1..n |-> [id |-> i, month |-> ms[i], amount |-> as[i]]] :
              ms \in [1..n -> LumpMonths], as \in [1..n -> LumpAmounts] } :
          n \in 0..MaxLumps }

----------------------------------------------------------------------------
(* The projections of one render *)

InitProj ==
  /\ age \in Ages
  /\ retireAge \in RetireAges(age)
  /\ currentWealth \in WealthChoices
  /\ monthlySaving \in SavingChoices
  /\ monthlySpend \in SpendChoices
  /\ swrPct = 35
  /\ accumRealReturn \in ReturnChoices
  /\ retireRealReturn \in {-500, 35}
  /\ lumpSums \in LumpLists
  /\ accumulation = <<>>
  /\ fullProjection = <<>>
  /\ pc = "start"
  /\ solver = Idle
  /\ required = Pending
  /\ goalSearch = Idle
  /\ runwayY = Pending
  /\ lastCall = NoCall
  /\ extraMonthlyNeeded = Pending

\* const accumulation = useMemo(() => projectToRetirement({...}))
ComputeAccumulation ==
  /\ pc = "start"
  /\ accumulation' = projectToRetirement(currentWealth, monthlySaving, monthsToRetire,
                                         monthlyAccum, lumpSums)
  /\ pc' = "accumulated"
  /\ UNCHANGED <<planVars, fullProjection, solver, required, goalSearch, runwayY, lastCall,
               extraMonthlyNeeded>>

\* const fullProjection = useMemo(() => projectFullTo100({...}))
ComputeFullProjection ==
  /\ pc = "accumulated"
  /\ fullProjection' = projectFullTo100(age, currentWealth, monthsToRetire, monthlySaving,
                                        monthlyAccum, monthlyRetire, monthlySpend, lumpSums)
  /\ pc' = "projected"
  /\ UNCHANGED <<planVars, accumulation, solver, required, goalSearch, runwayY, lastCall,
               extraMonthlyNeeded>>

NextProj == ComputeAccumulation \/ ComputeFullProjection

SpecProj == InitProj /\ [][NextProj]_vars

----------------------------------------------------------------------------
(* The required-return solver, App.tsx:365-404 *)

\* An annual rate of the solver is a double that 40 halvings keep exact; it
\* is held as h / HiScale + l / (HiScale * LoScale) with 0 <= l < LoScale.
HiScale == 8192
LoScale == 536870912
Annual(h, l) == [h |-> h, l |-> l]
AddAnnual(x, y) ==
  LET l == x.l + y.l IN Annual(x.h + y.h + l \div LoScale, l % LoScale)
HalfAnnual(x) == Annual(x.h \div 2, (x.l + (x.h % 2) * LoScale) \div 2)
Midpoint(x, y) == HalfAnnual(AddAnnual(x, y))
GreaterThanInt(x, n) == x.h > n * HiScale \/ (x.h = n * HiScale /\ x.l > 0)
\* x <= y
LeqAnnual(x, y) == x.h < y.h \/ (x.h = y.h /\ x.l <= y.l)
ZeroAnnual == Annual(0, 0)
InitialLoA == Annual(0 - HiScale \div 2, 0)   \* -0.5
InitialHiA == Annual(HiScale \div 2, 0)       \*  0.5
Widening == Annual(HiScale \div 4, 0)         \*  0.25
MaxExpansions == 10                           \* i < 10
BisectIterations == 40                        \* it < 40
AnnualCap == 3                                \* if (hiA > 3) break

\* a double that may be NaN
Real(v) == [nan |-> FALSE, v |-> v]
NaN == [nan |-> TRUE, v |-> 0]

\* toMonthly(annual) = Math.pow(1 + annual, 1/12) - 1: NaN for a negative base
toMonthly(annual) ==
  LET base == RateScale + (annual.h * RateScale) \div HiScale
  IN  IF base < 0 THEN NaN ELSE Real(Root12Fix(base) - RateScale)

\* wealthAtRetireWithMonthlyAccum(monthlyRate): the last row of the projection;
\* with a NaN rate every row after the first is NaN
wealthAtRetireWithMonthlyAccum(monthlyRate) ==
  IF monthlyRate.nan
  THEN IF monthsToRetire >= 1 THEN NaN ELSE Real(currentWealth)
  ELSE Real(LastWealth(projectToRetirement(currentWealth, monthlySaving, monthsToRetire,
                                           monthlyRate.v, lumpSums),
                       currentWealth))

\* wealthAtRetireWithMonthlyAccum(toMonthly(annual)) - target
Objective(annual, target) ==
  LET w == wealthAtRetireWithMonthlyAccum(toMonthly(annual))
  IN  IF w.nan THEN NaN ELSE Real(w.v - target)

\* x * y > 0 and x * y <= 0: both false when a factor is NaN
ProductPositive(x, y) == ~x.nan /\ ~y.nan /\ Sgn(x.v) * Sgn(y.v) > 0
ProductNotPositive(x, y) == ~x.nan /\ ~y.nan /\ Sgn(x.v) * Sgn(y.v) <= 0
\* a test that never passes
AbsBelowOneNever(x) == FALSE

\* Math.abs(x) < 1, of a whole number of currency units
AbsBelowOne(x) == ~x.nan /\ x.v > -1 /\ x.v < 1

wealthAtRetire == LastWealth(accumulation, currentWealth)
\* (monthlySpend * 12) / Math.max(swrPct / 100, 1e-9); the slider keeps swrPct >= 2.5
targetWealth == (monthlySpend * MonthsPerYear * 1000) \div swrPct
gap == targetWealth - wealthAtRetire

\* a horizon test that lets a horizon of 0 through
NotApplicableNegativeOnly(mtr) == mtr < 0

\* if (monthsToRetire <= 0) return null
NotApplicable(mtr) == mtr <= 0

\* the frame after lines 376-382 of a call with the given target
Entered(target, caller) ==
  IF NotApplicable(monthsToRetire)
  THEN [pc |-> "returned", caller |-> caller, target |-> target, ret |-> Null,
        loA |-> InitialLoA, hiA |-> InitialHiA, fLo |-> NaN, fHi |-> NaN,
        i |-> 0, it |-> 0, evals |-> 0]
  ELSE LET fLo == Objective(InitialLoA, target)
           fHi == Objective(InitialHiA, target)
           met == wealthAtRetire >= target
       IN  [pc |-> IF met THEN "returned" ELSE "expand", caller |-> caller,
            target |-> target, ret |-> IF met THEN Num(ZeroAnnual) ELSE Pending,
            loA |-> InitialLoA, hiA |-> InitialHiA, fLo |-> fLo, fHi |-> fHi,
            i |-> 0, it |-> 0, evals |-> 2]

\* requiredAccumAnnualToHitTarget = gap > 0 ? solveRequiredMonthlyAccum(targetWealth) : null
\* with gap <= 0: no call
RequiredWithoutCall ==
  /\ pc = "accumulated" /\ solver = Idle /\ required = Pending
  /\ gap <= 0
  /\ required' = Null
  /\ UNCHANGED <<planVars, accumulation, fullProjection, pc, solver, goalSearch, runwayY, lastCall,
               extraMonthlyNeeded>>

\* ... with gap > 0: the call, up to its first return or its first loop
CallFromApp ==
  /\ pc = "accumulated" /\ solver = Idle /\ required = Pending
  /\ gap > 0
  /\ solver' = Entered(targetWealth, "app")
  /\ UNCHANGED <<planVars, accumulation, fullProjection, pc, required, goalSearch, runwayY, lastCall,
               extraMonthlyNeeded>>

\* solveRequiredMonthlyAccum applied on its own to a target the plan already
\* meets (the App's guard never passes one)
CallDirect ==
  /\ pc = "accumulated" /\ solver = Idle /\ required = Pending
  /\ gap <= 0
  /\ solver' = Entered(targetWealth, "direct")
  /\ UNCHANGED <<planVars, accumulation, fullProjection, pc, required, goalSearch, runwayY, lastCall,
               extraMonthlyNeeded>>

LoopContinues == solver.i < MaxExpansions /\ ProductPositive(solver.fLo, solver.fHi)

\* one iteration of for (i = 0; i < 10 && fLo*fHi > 0; i++) { ... }
ExpandStep ==
  /\ solver.pc = "expand"
  /\ LoopContinues
  /\ LET loA == AddAnnual(solver.loA, Annual(0 - Widening.h, 0))
         hiA == AddAnnual(solver.hiA, Widening)
     IN  solver' = [solver EXCEPT
                      !.loA = loA, !.hiA = hiA,
                      !.fLo = Objective(loA, solver.target),
                      !.fHi = Objective(hiA, solver.target),
                      !.evals = @ + 2,
                      !.i = IF GreaterThanInt(hiA, AnnualCap) THEN @ ELSE @ + 1,
                      !.pc = IF GreaterThanInt(hiA, AnnualCap) THEN "afterloop" ELSE "expand"]
  /\ UNCHANGED <<planVars, accumulation, fullProjection, pc, required, goalSearch, runwayY, lastCall,
               extraMonthlyNeeded>>

\* the loop is left; if (fLo*fHi > 0) return null
BracketCheck ==
  /\ solver.pc \in {"expand", "afterloop"}
  /\ solver.pc = "expand" => ~LoopContinues
  /\ solver' = IF ProductPositive(solver.fLo, solver.fHi)
               THEN [solver EXCEPT !.pc = "returned", !.ret = Null]
               ELSE [solver EXCEPT !.pc = "bisect"]
  /\ UNCHANGED <<planVars, accumulation, fullProjection, pc, required, goalSearch, runwayY, lastCall,
               extraMonthlyNeeded>>

\* one iteration of for (it = 0; it < 40; it++) { ... }
BisectStep ==
  /\ solver.pc = "bisect"
  /\ solver.it < BisectIterations
  /\ LET midA == Midpoint(solver.loA, solver.hiA)
         fMid == Objective(midA, solver.target)
     IN  solver' =
           IF AbsBelowOne(fMid)
           THEN [solver EXCEPT !.pc = "returned", !.ret = Num(midA), !.evals = @ + 1]
           ELSE IF ProductNotPositive(solver.fLo, fMid)
           THEN [solver EXCEPT !.hiA = midA, !.fHi = fMid, !.it = @ + 1, !.evals = @ + 1]
           ELSE [solver EXCEPT !.loA = midA, !.fLo = fMid, !.it = @ + 1, !.evals = @ + 1]
  /\ UNCHANGED <<planVars, accumulation, fullProjection, pc, required, goalSearch, runwayY, lastCall,
               extraMonthlyNeeded>>

\* return (loA + hiA) / 2
BisectEnd ==
  /\ solver.pc = "bisect"
  /\ solver.it >= BisectIterations
  /\ solver' = [solver EXCEPT !.pc = "returned",
                              !.ret = Num(Midpoint(solver.loA, solver.hiA))]
  /\ UNCHANGED <<planVars, accumulation, fullProjection, pc, required, goalSearch, runwayY, lastCall,
               extraMonthlyNeeded>>

\* the App receives the value of the call
AssignRequired ==
  /\ solver.pc = "returned" /\ solver.caller = "app" /\ required = Pending
  /\ required' = solver.ret
  /\ UNCHANGED <<planVars, accumulation, fullProjection, pc, solver, goalSearch, runwayY, lastCall,
               extraMonthlyNeeded>>

SolveSpends == {0, 6, 10, 40, 400}
SolveLumpLists == { l \in LumpLists : Len(l) <= 1 }

InitSolve ==
  /\ age = CenturyAge - MaxYears
  /\ retireAge \in RetireAges(age)
  /\ currentWealth \in WealthChoices
  /\ monthlySaving \in SavingChoices
  /\ monthlySpend \in SolveSpends
  /\ swrPct = 40
  /\ accumRealReturn \in ReturnChoices
  /\ retireRealReturn = 35
  /\ lumpSums \in SolveLumpLists
  /\ accumulation = <<>>
  /\ fullProjection = <<>>
  /\ pc = "start"
  /\ solver = Idle
  /\ required = Pending
  /\ goalSearch = Idle
  /\ runwayY = Pending
  /\ lastCall = NoCall
  /\ extraMonthlyNeeded = Pending

NextSolve ==
  \/ ComputeAccumulation
  \/ RequiredWithoutCall
  \/ CallFromApp
  \/ CallDirect
  \/ ExpandStep
  \/ BracketCheck
  \/ BisectStep
  \/ BisectEnd
  \/ AssignRequired

SpecSolve == InitSolve /\ [][NextSolve]_vars

\* a call that has not returned
Running == solver # Idle /\ solver.pc \in {"expand", "afterloop", "bisect"}

\* The code is sequential: a call that has not returned takes its next step.
\* This is WF_vars(Running /\ NextSolve) with ENABLED written out as Running
\* (at every pc of a running call one of the loop tests passes).
SpecSolveFair == SpecSolve /\ ([]<>(~Running) \/ []<><<Running /\ NextSolve>>_vars)

----------------------------------------------------------------------------
(* The months-to-goal search, App.tsx:423-439 *)

Infinity == [kind |-> "inf"]
GoalCap == 1200                                \* const cap = 1200

\* a clip to the projection's lower end
GoalClipAtZero(month) == Max(0, month)

\* Math.max(1, Math.floor(ls.month)); months are integers here
GoalClip(month) == Max(1, month)

\* byMonth.get(k) || 0 for the map the search builds (lines 426-430)
RECURSIVE GoalByMonthGet(_, _)
GoalByMonthGet(lumps, k) ==
  IF lumps = <<>> THEN 0
  ELSE (IF GoalClip(Head(lumps).month) = k THEN Head(lumps).amount ELSE 0)
       + GoalByMonthGet(Tail(lumps), k)

\* the frame after lines 424-432: the early return, or the loop at t = 0
GoalEntered ==
  IF targetWealth <= 0
  THEN [pc |-> "returned", ret |-> Num(0), t |-> 0, W |-> currentWealth,
        r |-> monthlyAccum, target |-> targetWealth]
  ELSE [pc |-> "loop", ret |-> Pending, t |-> 0, W |-> currentWealth,
        r |-> monthlyAccum, target |-> targetWealth]

\* const monthsToGoalAtCurrentPlan = useMemo(() => { ... up to the loop
GoalCall ==
  /\ pc = "accumulated" /\ goalSearch = Idle
  /\ goalSearch' = GoalEntered
  /\ UNCHANGED <<planVars, accumulation, fullProjection, pc, solver, required, runwayY, lastCall,
               extraMonthlyNeeded>>

\* one iteration of for (let t = 0; t <= cap; t++) { ... }
GoalStep ==
  /\ goalSearch.pc = "loop"
  /\ goalSearch.t <= GoalCap
  /\ goalSearch' =
       IF goalSearch.W >= goalSearch.target
       THEN [goalSearch EXCEPT !.pc = "returned", !.ret = Num(goalSearch.t)]
       ELSE [goalSearch EXCEPT
               !.W = AccumStep(goalSearch.W, goalSearch.r, monthlySaving,
                               GoalByMonthGet(lumpSums, goalSearch.t + 1)),
               !.t = @ + 1]
  /\ UNCHANGED <<planVars, accumulation, fullProjection, pc, solver, required, runwayY, lastCall,
               extraMonthlyNeeded>>

\* the loop ran out: return Infinity
GoalExhausted ==
  /\ goalSearch.pc = "loop"
  /\ goalSearch.t > GoalCap
  /\ goalSearch' = [goalSearch EXCEPT !.pc = "returned", !.ret = Infinity]
  /\ UNCHANGED <<planVars, accumulation, fullProjection, pc, solver, required, runwayY, lastCall,
               extraMonthlyNeeded>>

GoalSavings == {-50, 0, 150}
GoalReturns == {-500, 0, 50}
GoalSpends == {0, 5, 6, 400}

\* plans whose wealth stays within the integers of the model for 1200 months:
\* no negative saving compounding at a positive rate
InitGoal ==
  /\ age = CenturyAge - MaxYears
  /\ retireAge = CenturyAge
  /\ currentWealth \in WealthChoices
  /\ monthlySaving \in GoalSavings
  /\ monthlySpend \in GoalSpends
  /\ swrPct = 40
  /\ accumRealReturn \in GoalReturns
  /\ (monthlySaving >= 0 \/ accumRealReturn <= 0)
  /\ retireRealReturn = 35
  /\ lumpSums \in SolveLumpLists
  /\ accumulation = <<>>
  /\ fullProjection = <<>>
  /\ pc = "start"
  /\ solver = Idle
  /\ required = Pending
  /\ goalSearch = Idle
  /\ runwayY = Pending
  /\ lastCall = NoCall
  /\ extraMonthlyNeeded = Pending

NextGoal ==
  \/ ComputeAccumulation
  \/ GoalCall
  \/ GoalStep
  \/ GoalExhausted

SpecGoal == InitGoal /\ [][NextGoal]_vars

----------------------------------------------------------------------------
(* The closed-form runway, App.tsx:412-420 *)

\* A finite result of yearsOfRunway is held in whole months, rounded down:
\* floor(12 * years), and no more than MaxRunwayMonths.
MaxRunwayMonths == 48

\* ratio = 1 - (startingWealth * r) / annualSpend, in units of 1/RateScale;
\* r = realReturnAnnual / 100 with realReturnAnnual in tenths of a percent
RunwayRatio(startingWealth, annualSpend, realReturnAnnual) ==
  RateScale - (((startingWealth * realReturnAnnual) \div 1000) * RateScale) \div annualSpend

\* a test that lets ratio = 0 through
RatioNegative(startingWealth, annualSpend, realReturnAnnual) ==
  annualSpend * 1000 - startingWealth * realReturnAnnual < 0

\* ratio <= 0, exactly
RatioNotPositive(startingWealth, annualSpend, realReturnAnnual) ==
  annualSpend * 1000 - startingWealth * realReturnAnnual <= 0

\* floor(12 * (-Math.log(ratio) / Math.log(1 + r))) from month k on: the last
\* month k with (1 + r)^(k/12) * ratio on the side of 1 where it starts;
\* growth is (1 + r)^(1/12) and P = growth^k, both in units of 1/RateScale
RECURSIVE LogQuotientMonths(_, _, _, _)
LogQuotientMonths(k, P, ratio, growth) ==
  IF k >= MaxRunwayMonths THEN k
  ELSE LET P2 == (P * growth) \div RateScale
       IN  IF (growth > RateScale /\ P2 * ratio <= RateScale * RateScale)
              \/ (growth < RateScale /\ P2 * ratio >= RateScale * RateScale)
           THEN LogQuotientMonths(k + 1, P2, ratio, growth)
           ELSE k

yearsOfRunway(startingWealth, annualSpend, realReturnAnnual) ==
  IF annualSpend <= 0 THEN Infinity
  ELSE IF realReturnAnnual = 0
  THEN Num(Min(MaxRunwayMonths, (MonthsPerYear * startingWealth) \div annualSpend))
  ELSE IF RatioNotPositive(startingWealth, annualSpend, realReturnAnnual) THEN Infinity
  ELSE Num(LogQuotientMonths(0, RateScale,
                             RunwayRatio(startingWealth, annualSpend, realReturnAnnual),
                             RateScale + monthlyRateFromRealAnnual(realReturnAnnual)))

\* const runwayY = yearsOfRunway({ startingWealth: wealthAtRetire, ... })
ComputeRunway ==
  /\ pc = "projected" /\ runwayY = Pending
  /\ runwayY' = yearsOfRunway(wealthAtRetire, monthlySpend * MonthsPerYear, retireRealReturn)
  /\ UNCHANGED <<planVars, accumulation, fullProjection, pc, solver, required, goalSearch, lastCall,
               extraMonthlyNeeded>>

RunwayWealths == {0, 1000, 6000, 12000}
RunwaySpends == {0, 400, 1000}
RunwayReturns == {-500, 0, 35, 1000}

\* decumulation only: retirement has begun (monthsToRetire = 0)
InitRunway ==
  /\ age = CenturyAge - MaxYears - 1
  /\ retireAge \in {age - 1, age}
  /\ currentWealth \in RunwayWealths
  /\ monthlySaving \in SavingChoices
  /\ monthlySpend \in RunwaySpends
  /\ swrPct = 40
  /\ accumRealReturn = 50
  /\ retireRealReturn \in RunwayReturns
  /\ lumpSums \in SolveLumpLists
  /\ accumulation = <<>>
  /\ fullProjection = <<>>
  /\ pc = "start"
  /\ solver = Idle
  /\ required = Pending
  /\ goalSearch = Idle
  /\ runwayY = Pending
  /\ lastCall = NoCall
  /\ extraMonthlyNeeded = Pending

NextRunway ==
  \/ ComputeAccumulation
  \/ ComputeFullProjection
  \/ ComputeRunway

SpecRunway == InitRunway /\ [][NextRunway]_vars

----------------------------------------------------------------------------
(* The lump-sum list handlers, App.tsx:463-465 *)

MaxLumpId == 4          \* addLump is not called once the next id would pass it

\* an id taken from the length of the list
NextLumpIdByLength(arr) == Len(arr) + 1

\* (arr[arr.length - 1]?.id || 0) + 1
NextLumpId(arr) == (IF arr = <<>> THEN 0 ELSE arr[Len(arr)].id) + 1

\* [...arr, { id: ..., month: 1, amount: 100_000 }]
addLump ==
  /\ Len(lumpSums) < MaxLumps
  /\ NextLumpId(lumpSums) <= MaxLumpId
  /\ lumpSums' = Append(lumpSums, [id |-> NextLumpId(lumpSums), month |-> 1,
                                   amount |-> 100000])
  /\ lastCall' = [op |-> "add"]
  /\ UNCHANGED <<age, retireAge, currentWealth, monthlySaving, monthlySpend, swrPct,
                 accumRealReturn, retireRealReturn, accumulation, fullProjection, pc,
                 solver, required, goalSearch, runwayY, extraMonthlyNeeded>>

\* arr.map((ls) => (ls.id === id ? { ...ls, [field]: value } : ls))
Updated(arr, id, field, value) ==
  [i \in 1..Len(arr) |->
     IF arr[i].id = id THEN [arr[i] EXCEPT ![field] = value] ELSE arr[i]]

updateLump ==
  \E id \in 1..MaxLumpId :
    \E call \in ({"month"} \X LumpMonths) \cup ({"amount"} \X LumpAmounts) :
      /\ lumpSums' = Updated(lumpSums, id, call[1], call[2])
      /\ lastCall' = [op |-> "update", id |-> id, field |-> call[1], value |-> call[2]]
      /\ UNCHANGED <<age, retireAge, currentWealth, monthlySaving, monthlySpend, swrPct,
                     accumRealReturn, retireRealReturn, accumulation, fullProjection,
                     pc, solver, required, goalSearch, runwayY, extraMonthlyNeeded>>

\* arr.filter((ls) => ls.id !== id)
Removed(arr, id) == SelectSeq(arr, LAMBDA ls : ls.id # id)

removeLump ==
  \E id \in 1..MaxLumpId :
    /\ lumpSums' = Removed(lumpSums, id)
    /\ lastCall' = [op |-> "remove", id |-> id]
    /\ UNCHANGED <<age, retireAge, currentWealth, monthlySaving, monthlySpend, swrPct,
                   accumRealReturn, retireRealReturn, accumulation, fullProjection, pc,
                   solver, required, goalSearch, runwayY, extraMonthlyNeeded>>

\* the App as it starts: useState<Lump[]>([])
InitLumps ==
  /\ age = CenturyAge - MaxYears
  /\ retireAge = CenturyAge
  /\ currentWealth = 1000
  /\ monthlySaving = 150
  /\ monthlySpend = 400
  /\ swrPct = 35
  /\ accumRealReturn = 50
  /\ retireRealReturn = 35
  /\ lumpSums = <<>>
  /\ accumulation = <<>>
  /\ fullProjection = <<>>
  /\ pc = "start"
  /\ solver = Idle
  /\ required = Pending
  /\ goalSearch = Idle
  /\ runwayY = Pending
  /\ lastCall = NoCall
  /\ extraMonthlyNeeded = Pending

NextLumps == addLump \/ updateLump \/ removeLump

SpecLumps == InitLumps /\ [][NextLumps]_vars

----------------------------------------------------------------------------
(* Accumulation followed by decumulation *)

\* plans with a year of accumulation or none, and a year or more of decumulation
DecumSpends == {0, 400, 1000}
DecumReturns == {-500, 35, 1000}

InitDecum ==
  /\ age = CenturyAge - MaxYears - 1
  /\ retireAge \in {age, age + 1}
  /\ currentWealth \in WealthChoices
  /\ monthlySaving \in SavingChoices
  /\ monthlySpend \in DecumSpends
  /\ swrPct = 35
  /\ accumRealReturn \in ReturnChoices
  /\ retireRealReturn \in DecumReturns
  /\ lumpSums \in SolveLumpLists
  /\ accumulation = <<>>
  /\ fullProjection = <<>>
  /\ pc = "start"
  /\ solver = Idle
  /\ required = Pending
  /\ goalSearch = Idle
  /\ runwayY = Pending
  /\ lastCall = NoCall
  /\ extraMonthlyNeeded = Pending

SpecDecum == InitDecum /\ [][NextProj]_vars

----------------------------------------------------------------------------
(* The extra monthly saving, App.tsx:407-410 *)

PowCap == 1000000       \* above every (1 + monthlyAccum)^monthsToRetire of the model

\* (Math.pow(1 + monthlyAccum, monthsToRetire) - 1) / monthlyAccum for
\* monthlyAccum > 0, else monthsToRetire; in units of 1/RateScale
AnnuityFactor(rate, months) ==
  IF rate > 0
  THEN ((PowFix(RateScale + rate, months, PowCap) - RateScale) * RateScale) \div rate
  ELSE months * RateScale

\* gap > 0 && monthsToRetire > 0 ? gap / Math.max(factor, 1) : 0, rounded down
\* to a currency unit
ExtraMonthly(gapNow, months, rate) ==
  IF gapNow > 0 /\ months > 0
  THEN (gapNow * RateScale) \div Max(AnnuityFactor(rate, months), RateScale)
  ELSE 0

\* const extraMonthlyNeeded = ...
ComputeExtra ==
  /\ pc = "accumulated" /\ extraMonthlyNeeded = Pending
  /\ extraMonthlyNeeded' = Num(ExtraMonthly(gap, monthsToRetire, monthlyAccum))
  /\ UNCHANGED <<planVars, accumulation, fullProjection, pc, solver, required,
                 goalSearch, runwayY, lastCall>>

ExtraReturns == {-500, -10, 0, 50, 1000}

InitExtra ==
  /\ age = CenturyAge - MaxYears
  /\ retireAge \in RetireAges(age)
  /\ currentWealth \in WealthChoices
  /\ monthlySaving \in SavingChoices
  /\ monthlySpend \in SolveSpends
  /\ swrPct = 40
  /\ accumRealReturn \in ExtraReturns
  /\ retireRealReturn = 35
  /\ lumpSums \in SolveLumpLists
  /\ accumulation = <<>>
  /\ fullProjection = <<>>
  /\ pc = "start"
  /\ solver = Idle
  /\ required = Pending
  /\ goalSearch = Idle
  /\ runwayY = Pending
  /\ lastCall = NoCall
  /\ extraMonthlyNeeded = Pending

NextExtra == ComputeAccumulation \/ ComputeExtra

SpecExtra == InitExtra /\ [][NextExtra]_vars

----------------------------------------------------------------------------
(* Claims about the projections *)

RemoveAt(seq, i) == SubSeq(seq, 1, i - 1) \o SubSeq(seq, i + 1, Len(seq))
Wealths(rows) == [i \in 1..Len(rows) |-> rows[i].wealth]

\* end wealth of the accumulation projection of the current plan at the
\* given monthly rate and monthly saving
EndWealth(rate, saving) ==
  LastWealth(projectToRetirement(currentWealth, saving, monthsToRetire, rate, lumpSums),
             currentWealth)
MonthlyRates == { monthlyRateFromRealAnnual(p) : p \in ReturnChoices }
Accumulated == pc \in {"accumulated", "projected"}
RowsBeforeLastNonNegative ==
  \A i \in 1..(Len(accumulation) - 1) : accumulation[i].wealth >= 0

\* end wealth does not decrease from the current plan to a higher rate
MonotoneInRate ==
  LET r1 == monthlyAccum
      w1 == LastWealth(accumulation, currentWealth)
  IN  \A r2 \in MonthlyRates : r2 >= r1 => EndWealth(r2, monthlySaving) >= w1
\* end wealth does not decrease from the current plan to a higher saving
MonotoneInSaving ==
  LET r1 == monthlyAccum
      w1 == LastWealth(accumulation, currentWealth)
  IN  \A s2 \in SavingChoices : s2 >= monthlySaving => EndWealth(r1, s2) >= w1

\* C1 as claimed: end wealth is non-decreasing in the monthly rate and in the
\* monthly saving for any input, negative saving and negative wealth included.
C1_MonotoneAnyInput ==
  Accumulated => (MonotoneInRate /\ MonotoneInSaving)

\* C1 amended: end wealth is non-decreasing in the monthly saving for every
\* rate >= -100%, and non-decreasing in the monthly rate when every row before
\* the last is non-negative at the lower rate.
C1_MonotoneNonNegative ==
  Accumulated =>
    /\ RowsBeforeLastNonNegative => MonotoneInRate
    /\ MonotoneInSaving

\* C1 witness: a plan with negative saving whose rows stay non-negative and
\* whose end wealth is strictly higher at a higher rate and at a higher saving.
C1_Witness ==
  /\ Accumulated /\ monthsToRetire > 0 /\ monthlySaving < 0
  /\ RowsBeforeLastNonNegative
  /\ LET r1 == monthlyAccum
         w1 == LastWealth(accumulation, currentWealth)
     IN  /\ \E r2 \in MonthlyRates : r2 > r1 /\ EndWealth(r2, monthlySaving) > w1
         /\ \E s2 \in SavingChoices : s2 > monthlySaving /\ EndWealth(r1, s2) > w1

\* the series ws has the amount added in the transition that produces the
\* entry of month c, and equals the series without the lump sum before it
AddedAtMonth(ws, wsWithout, c, amount) ==
  /\ c >= 1 /\ c + 1 <= Len(ws)
  /\ \A t \in 0..(c - 1) : ws[t + 1] = wsWithout[t + 1]
  /\ ws[c + 1] = wsWithout[c + 1] + amount

\* lump sum i is added once, at month c, in projectToRetirement
AddedInAccumulation(i, c, ra) ==
  LET without == projectToRetirement(currentWealth, monthlySaving, monthsToRetire, ra,
                                     RemoveAt(lumpSums, i))
  IN  AddedAtMonth(Wealths(accumulation), Wealths(without), c, lumpSums[i].amount)

\* lump sum i is added once, at month c, to the running value of projectFullTo100
AddedInFull(i, c, ra, rr) ==
  LET with == FullTrace(age, currentWealth, monthsToRetire, monthlySaving, ra, rr,
                        monthlySpend, lumpSums)
      without == FullTrace(age, currentWealth, monthsToRetire, monthlySaving, ra, rr,
                           monthlySpend, RemoveAt(lumpSums, i))
  IN  AddedAtMonth(with, without, c, lumpSums[i].amount)

\* lump sum i changes no row of either projection
NeverAdded(i, ra, rr) ==
  /\ accumulation = projectToRetirement(currentWealth, monthlySaving, monthsToRetire, ra,
                                        RemoveAt(lumpSums, i))
  /\ fullProjection = projectFullTo100(age, currentWealth, monthsToRetire, monthlySaving,
                                       ra, rr, monthlySpend, RemoveAt(lumpSums, i))

\* C2 as claimed: in both projections a lump sum with month > horizon is added
\* exactly once, in the transition producing the row of month = horizon; one
\* with month <= 0 is never added; lump sums sharing a month are summed.
C2_ClipAnyHorizon ==
  pc = "projected" =>
    LET ra == monthlyAccum
        rr == monthlyRetire
    IN  \A i \in 1..Len(lumpSums) :
          /\ lumpSums[i].month > monthsToRetire =>
               /\ AddedInAccumulation(i, monthsToRetire, ra)
               /\ AddedInFull(i, monthsToRetire, ra, rr)
          /\ lumpSums[i].month <= 0 => NeverAdded(i, ra, rr)

\* C2 amended: the same when the horizon is at least one month (and, in
\* projectFullTo100, the row of month = monthsToRetire exists); with a horizon
\* of 0 every lump sum is clipped to bucket 0 and is never added.
C2_ClipPositiveHorizon ==
  pc = "projected" =>
    LET ra == monthlyAccum
        rr == monthlyRetire
    IN  \A i \in 1..Len(lumpSums) :
          /\ (lumpSums[i].month > monthsToRetire /\ monthsToRetire >= 1) =>
               /\ AddedInAccumulation(i, monthsToRetire, ra)
               /\ monthsToRetire <= monthsTo100 => AddedInFull(i, monthsToRetire, ra, rr)
          /\ (lumpSums[i].month <= 0 \/ monthsToRetire = 0) => NeverAdded(i, ra, rr)

\* C2 witness: two lump sums beyond a positive horizon are both added in the
\* last transition of the accumulation, which the full series shows too.
C2_Witness ==
  /\ pc = "projected" /\ monthsToRetire >= 1 /\ monthsToRetire <= monthsTo100
  /\ Len(lumpSums) >= 2
  /\ lumpSums[1].month > monthsToRetire /\ lumpSums[2].month > monthsToRetire
  /\ LastWealth(accumulation, currentWealth)
       = LastWealth(projectToRetirement(currentWealth, monthlySaving, monthsToRetire,
                                        monthlyAccum, <<>>), currentWealth)
         + lumpSums[1].amount + lumpSums[2].amount
  /\ fullProjection[monthsToRetire + 1].wealth > fullProjection[monthsToRetire].wealth

\* C7: a series over horizon H has exactly H+1 rows with months 0..H ascending
\* and row 0 carrying the start wealth; H = monthsToRetire for
\* projectToRetirement, H = max(0, (100 - age)*12) for projectFullTo100.
SeriesShape(rows, H) ==
  /\ Len(rows) = H + 1
  /\ \A i \in 1..Len(rows) : rows[i].m = i - 1
  /\ \A i \in 1..(Len(rows) - 1) : rows[i].m < rows[i + 1].m
  /\ rows[1].wealth = currentWealth
C7_SeriesShape ==
  /\ Accumulated => SeriesShape(accumulation, monthsToRetire)
  /\ pc = "projected" =>
       SeriesShape(fullProjection, Max(0, (CenturyAge - age) * MonthsPerYear))

\* C7 witness: a full series whose accumulation horizon exceeds its own.
C7_Witness ==
  /\ pc = "projected" /\ monthsTo100 > 0 /\ monthsToRetire > monthsTo100
  /\ Len(fullProjection) = monthsTo100 + 1
  /\ Len(accumulation) = monthsToRetire + 1

\* the running value as the claim describes it: never floored, advanced by
\* the accumulation step before monthsToRetire and by W*(1+r) - spend after
RECURSIVE UnflooredFrom(_, _, _, _, _, _, _)
UnflooredFrom(t, W, ws, H, mtr, ra, rr) ==
  IF t > H THEN ws
  ELSE UnflooredFrom(
         t + 1,
         IF t < mtr
         THEN MulRate(W, ra) + monthlySaving + BucketSum(lumpSums, mtr, t + 1)
         ELSE MulRate(W, rr) - monthlySpend,
         Append(ws, W), H, mtr, ra, rr)
Unfloored ==
  UnflooredFrom(0, currentWealth, <<>>, monthsTo100, monthsToRetire,
                monthlyAccum, monthlyRetire)

\* C8: every row of projectFullTo100 is max(0, W) >= 0 and W itself is never
\* reset: row t+1 is max(0, step(W_t)) of the unfloored W_t.
C8_FloorAtEmissionOnly ==
  pc = "projected" =>
    LET u == Unfloored
    IN  /\ Len(fullProjection) = Len(u)
        /\ \A i \in 1..Len(fullProjection) :
             /\ fullProjection[i].wealth >= 0
             /\ fullProjection[i].wealth = Max(0, u[i])

\* C8 witness: a row is 0 over a negative running value and the next row is
\* positive and below what a step from 0 would give.
C8_Witness ==
  /\ pc = "projected"
  /\ LET u == Unfloored
         ra == monthlyAccum
         rr == monthlyRetire
     IN  \E i \in 1..(Len(fullProjection) - 1) :
           /\ u[i] < 0 /\ fullProjection[i].wealth = 0
           /\ fullProjection[i + 1].wealth > 0
           /\ fullProjection[i + 1].wealth
                < FullNextW(i - 1, 0, monthsToRetire, monthlySaving, ra, rr,
                            monthlySpend, lumpSums)

----------------------------------------------------------------------------
(* Claims about the solver *)

Returned == solver.pc = "returned"
AlreadyMet == monthsToRetire > 0 /\ wealthAtRetire >= targetWealth

\* the annual rates the widening tries: -0.5 - 0.25k and 0.5 + 0.25k
LoAt(k) == Annual(InitialLoA.h - k * Widening.h, 0)
HiAt(k) == Annual(InitialHiA.h + k * Widening.h, 0)
\* no bracket up to the cap of 3.0 shows a sign change: the objective has one
\* strict sign at every end where it is a real number
NoBracketUpToCap(target) ==
  LET s == Sgn(Objective(HiAt(0), target).v)
  IN  /\ s # 0
      /\ \A k \in 0..MaxExpansions :
           /\ ~GreaterThanInt(HiAt(k), AnnualCap) =>
                Sgn(Objective(HiAt(k), target).v) = s
           /\ LET f == Objective(LoAt(k), target) IN ~f.nan => Sgn(f.v) = s
Unsolvable ==
  monthsToRetire > 0 /\ wealthAtRetire < targetWealth /\ NoBracketUpToCap(targetWealth)

\* C3 as claimed: what the App receives tells 'not applicable' (null, line
\* 376), 'already met' (exact 0) and 'unsolvable' apart: the three values are
\* pairwise different.
C3_OutcomesDistinct ==
  required # Pending =>
    /\ monthsToRetire <= 0 => required = Null
    /\ AlreadyMet => (required = Num(ZeroAnnual) /\ required # Null)
    /\ Unsolvable => (required # Null /\ required # Num(ZeroAnnual))

\* C4: the call returns null whenever monthsToRetire <= 0 and exactly 0
\* whenever monthsToRetire > 0 and wealthAtRetire >= target; in both cases no
\* widening or bisection step is taken.
C4_EarlyReturns ==
  solver # Idle =>
    /\ monthsToRetire <= 0 =>
         (Returned /\ solver.ret = Null /\ solver.evals = 0)
    /\ (monthsToRetire > 0 /\ wealthAtRetire >= solver.target) =>
         (Returned /\ solver.ret = Num(ZeroAnnual))
    /\ (monthsToRetire <= 0 \/ wealthAtRetire >= solver.target) =>
         (solver.i = 0 /\ solver.it = 0 /\ solver.loA = InitialLoA
          /\ solver.hiA = InitialHiA)

\* C4 witness: a call with a positive horizon and a target the plan meets
\* returned exactly 0 after evaluating only the two ends of the first bracket.
C4_Witness ==
  /\ Returned /\ monthsToRetire > 0 /\ solver.target > 0
  /\ wealthAtRetire >= solver.target
  /\ solver.ret = Num(ZeroAnnual) /\ solver.evals = 2

\* C5 as claimed: with a positive horizon, wealthAtRetire < target and no sign
\* change in any bracket up to the cap, the call returns null, never a rate.
C5_UnsolvableReturnsNull ==
  (Returned /\ solver.caller = "app" /\ Unsolvable) => solver.ret = Null

----------------------------------------------------------------------------
(* Claims about the months-to-goal search *)

GoalReturned == goalSearch.pc = "returned"

\* lump(k) of the simulated series: the amounts due at month k, a lump sum of
\* a month before 1 being due at month 1
RECURSIVE LumpDue(_, _)
LumpDue(lumps, k) ==
  IF lumps = <<>> THEN 0
  ELSE (IF Head(lumps).month = k \/ (k = 1 /\ Head(lumps).month < 1)
        THEN Head(lumps).amount ELSE 0) + LumpDue(Tail(lumps), k)

\* the simulated series from (t, W): the first month s in t..stop with
\* W_s >= target, or (stop, W_stop) when there is none
RECURSIVE SeriesFrom(_, _, _, _, _)
SeriesFrom(t, W, stop, target, rate) ==
  IF W >= target THEN [found |-> TRUE, t |-> t, W |-> W]
  ELSE IF t >= stop THEN [found |-> FALSE, t |-> t, W |-> W]
  ELSE SeriesFrom(t + 1,
                  MulRate(W, rate) + monthlySaving + LumpDue(lumpSums, t + 1),
                  stop, target, rate)

SeriesBlock == 100
\* the same over t..GoalCap, a block of months at a time
RECURSIVE LeastMonth(_, _, _, _)
LeastMonth(t, W, target, rate) ==
  LET b == SeriesFrom(t, W, Min(t + SeriesBlock, GoalCap), target, rate)
  IN  IF b.found \/ b.t >= GoalCap THEN b ELSE LeastMonth(b.t, b.W, target, rate)

\* W_t of the series at rate 0: no compounding
WealthAtRateZero(t) ==
  LET due(i) == IF lumpSums[i].month < 1 THEN 1 ELSE lumpSums[i].month
      Paid[i \in 0..Len(lumpSums)] ==
        IF i = 0 THEN 0
        ELSE Paid[i - 1] + (IF due(i) <= t THEN lumpSums[i].amount ELSE 0)
  IN  currentWealth + t * monthlySaving + Paid[Len(lumpSums)]

\* C9: the search yields 0 when targetWealth <= 0; otherwise the least month t
\* in 0..1200 with W_t >= targetWealth, and Infinity exactly when there is no
\* such month; its counter never passes 1201.
C9_MonthsToGoal ==
  /\ goalSearch # Idle =>
       /\ goalSearch.t <= GoalCap + 1
       /\ targetWealth <= 0 => (GoalReturned /\ goalSearch.ret = Num(0))
       /\ accumRealReturn = 0 => goalSearch.W = WealthAtRateZero(goalSearch.t)
  /\ (goalSearch # Idle /\ GoalReturned /\ targetWealth > 0) =>
       LET least == LeastMonth(0, currentWealth, targetWealth, monthlyAccum)
       IN  /\ least.found => (goalSearch.ret = Num(least.t) /\ goalSearch.W = least.W)
           /\ ~least.found => goalSearch.ret = Infinity
           /\ goalSearch.ret = Infinity => ~least.found
           /\ goalSearch.ret # Infinity => goalSearch.ret.a \in 0..GoalCap

\* C9 witness: with a positive target, a compounding rate and a lump sum in
\* the plan, the search returned a month after the first year.
C9_Witness ==
  /\ GoalReturned /\ targetWealth > 0 /\ lumpSums # <<>> /\ accumRealReturn # 0
  /\ goalSearch.ret = Num(goalSearch.t)
  /\ goalSearch.t > MonthsPerYear /\ goalSearch.t < GoalCap

\* C10 as claimed: at every month t <= min(monthsToRetire, 1200) the wealth the
\* search compares with the target is the wealth of row t of
\* projectToRetirement, for every lump-sum list; hence wealthAtRetire >= target
\* implies months-to-goal <= monthsToRetire.
C10_SameScheduleAsProjection ==
  (goalSearch # Idle /\ targetWealth > 0) =>
    /\ goalSearch.t <= Min(monthsToRetire, GoalCap) =>
         goalSearch.W = accumulation[goalSearch.t + 1].wealth
    /\ (GoalReturned /\ wealthAtRetire >= targetWealth) =>
         (goalSearch.ret # Infinity /\ goalSearch.ret.a <= monthsToRetire)

----------------------------------------------------------------------------
(* Claims about the runway *)

\* the months at which the step-wise series shows 0
ZeroMonths == { t \in 0..(Len(fullProjection) - 1) : fullProjection[t + 1].wealth = 0 }
FirstZeroMonth == CHOOSE t \in ZeroMonths : \A u \in ZeroMonths : t <= u

\* C6 as claimed: in a decumulation-only scenario with W > 0 and s > 0,
\* yearsOfRunway is Infinity if and only if the step-wise series never reaches
\* 0 within the horizon, and a finite years*12 is within one month of the
\* first month at which the series reaches 0.  (years*12 is held rounded down,
\* so it is allowed to lie two months below the first zero month.)
C6_RunwayAgreesWithSeries ==
  (runwayY # Pending /\ currentWealth > 0 /\ monthlySpend > 0) =>
    /\ runwayY = Infinity <=> ZeroMonths = {}
    /\ runwayY # Infinity =>
         /\ ZeroMonths # {}
         /\ runwayY.a >= FirstZeroMonth - 2
         /\ runwayY.a <= FirstZeroMonth + 1

\* C11: yearsOfRunway is Infinity whenever annualSpend <= 0; otherwise
\* startingWealth/annualSpend when the rate is 0; otherwise Infinity whenever
\* ratio <= 0; a finite closed-form value only for annualSpend > 0, a rate
\* other than 0 and ratio > 0.  The order of the tests shows where two cases
\* overlap: no spend at rate 0 is Infinity, not a quotient.
C11_RunwayCases ==
  runwayY # Pending =>
    LET W == wealthAtRetire
        A == monthlySpend * MonthsPerYear
        r == retireRealReturn
    IN  /\ A <= 0 => runwayY = Infinity
        /\ (A > 0 /\ r = 0) =>
             /\ runwayY # Infinity
             /\ runwayY.a * A <= MonthsPerYear * W
             /\ runwayY.a = MaxRunwayMonths \/ (runwayY.a + 1) * A > MonthsPerYear * W
        /\ (A > 0 /\ r # 0 /\ W * r >= A * 1000) => runwayY = Infinity
        /\ runwayY # Infinity => (A > 0 /\ (r = 0 \/ W * r < A * 1000))
        /\ (A > 0 /\ r # 0 /\ W * r < A * 1000) => runwayY # Infinity

\* C11 witness: with a positive spend and a rate other than 0 the fund yields
\* exactly the spend (ratio = 0) and the runway is Infinity.
C11_Witness ==
  /\ runwayY = Infinity /\ monthlySpend > 0 /\ retireRealReturn # 0
  /\ wealthAtRetire * retireRealReturn = monthlySpend * MonthsPerYear * 1000

----------------------------------------------------------------------------
(* Claims about the lump-sum list *)

UniqueIds(arr) == \A i, j \in 1..Len(arr) : arr[i].id = arr[j].id => i = j

\* the positions of arr before position i whose id is not the given one
KeptBefore(arr, i, id) == Cardinality({ j \in 1..(i - 1) : arr[j].id # id })

\* what a call of updateLump may change: the named field of the entries with
\* the given id, which takes the value
OnlyFieldChanged ==
  /\ Len(lumpSums') = Len(lumpSums)
  /\ \A i \in 1..Len(lumpSums) :
       /\ lumpSums[i].id # lastCall'.id => lumpSums'[i] = lumpSums[i]
       /\ lumpSums[i].id = lastCall'.id =>
            /\ lumpSums'[i][lastCall'.field] = lastCall'.value
            /\ \A f \in {"id", "month", "amount"} \ {lastCall'.field} :
                 lumpSums'[i][f] = lumpSums[i][f]

\* what a call of removeLump may change: the entries with the given id go, at
\* most one of them, the others stay in their order
OnlyLumpRemoved ==
  /\ Len(lumpSums) - Len(lumpSums') \in {0, 1}
  /\ \A i \in 1..Len(lumpSums) :
       lumpSums[i].id # lastCall'.id =>
         lumpSums'[KeptBefore(lumpSums, i, lastCall'.id) + 1] = lumpSums[i]
  /\ \A i \in 1..Len(lumpSums') : lumpSums'[i].id # lastCall'.id

\* C12: from the empty list, no two lump sums ever share an id; updateLump
\* changes only the named field of the lump with the given id; removeLump
\* removes only that lump and keeps the other entries and their order.
C12_UniqueIds ==
  /\ [](UniqueIds(lumpSums))
  /\ [][/\ lastCall'.op = "update" => OnlyFieldChanged
        /\ lastCall'.op = "remove" => OnlyLumpRemoved]_vars

\* C12 witness: a list of two lump sums whose ids are not 1, 2 (an earlier
\* lump was removed and another added), just after an update of a present id.
C12_Witness ==
  /\ Len(lumpSums) = 2 /\ lumpSums[1].id = 2 /\ lumpSums[2].id = 3
  /\ lastCall.op = "update" /\ lastCall.id = 3 /\ lastCall.field = "month"
  /\ lumpSums[2].month = 62 /\ lumpSums[1].month = 1

----------------------------------------------------------------------------
(* Claims about the solver's loops *)

\* |x| < 1 for a value that is a number
WithinOne(x) == ~x.nan /\ x.v > -1 /\ x.v < 1

\* the counters of a call stay within the loops' limits
SolverBounded ==
  solver # Idle =>
    /\ solver.i \in 0..MaxExpansions
    /\ solver.it \in 0..BisectIterations
    /\ ~GreaterThanInt(solver.hiA, AnnualCap)
    /\ solver.hiA = HiAt(solver.i) \/ solver.it > 0 \/ Returned
    /\ solver.evals <= 2 + 2 * MaxExpansions + BisectIterations
    /\ solver.evals <= 2 + 2 * solver.i + solver.it + 1

\* a bisection iteration goes on only past a midpoint that is not within 1 of
\* the target, and returns before the 40th only at one that is
StopsWithinOne ==
  (solver # Idle /\ solver.pc = "bisect") =>
    LET fMid == Objective(Midpoint(solver.loA, solver.hiA), solver.target)
    IN  /\ solver'.pc = "bisect" => (~WithinOne(fMid) /\ solver'.it = solver.it + 1)
        /\ (solver'.pc = "returned" /\ solver.it < BisectIterations) => WithinOne(fMid)
        /\ (WithinOne(fMid) /\ solver.it < BisectIterations /\ solver' # solver) =>
             (solver'.pc = "returned" /\ solver'.ret = Num(Midpoint(solver.loA, solver.hiA)))

\* C13: a call ends; it makes at most 10 widenings, never has an upper end above
\* 3.0, makes at most 40 bisection iterations and stops at the first midpoint
\* within 1 of the target; it evaluates the projection at most 62 times.
C13_SolverTerminates ==
  /\ [](SolverBounded)
  /\ [][StopsWithinOne]_vars
  /\ (Running ~> Returned)

\* C13 witness: a call that widened the bracket and used all 40 iterations.
C13_Witness ==
  /\ solver # Idle /\ Returned
  /\ solver.i > 0 /\ solver.it = BisectIterations
  /\ solver.evals = 2 + 2 * solver.i + BisectIterations

\* both values are numbers of the same strict sign
SameStrictSign(x, y) == ~x.nan /\ ~y.nan /\ Sgn(x.v) # 0 /\ Sgn(x.v) = Sgn(y.v)

RECURSIVE HalfTimes(_, _)
HalfTimes(x, n) == IF n = 0 THEN x ELSE HalfTimes(HalfAnnual(x), n - 1)

\* hiA - loA of the bracket after i widenings: 1 + 0.5 i
WidenedWidth(i) == Annual(HiAt(i).h - LoAt(i).h, 0)

\* the call went through the bisection loop and returned a number
ReturnedFromBisection ==
  /\ solver # Idle /\ Returned /\ solver.ret # Null
  /\ monthsToRetire > 0 /\ wealthAtRetire < solver.target

\* C14 as claimed: in the bisection loop the values at loA and hiA never have
\* the same strict sign, hiA - loA is the widened width halved once per
\* iteration, and the rate returned lies in the last bracket and either is
\* within 1 of the target or is the midpoint after 40 halvings.
C14_BracketInvariant ==
  /\ (solver # Idle /\ solver.pc = "bisect") =>
       /\ ~SameStrictSign(solver.fLo, solver.fHi)
       /\ AddAnnual(solver.loA, HalfTimes(WidenedWidth(solver.i), solver.it)) = solver.hiA
  /\ ReturnedFromBisection =>
       /\ LeqAnnual(solver.loA, solver.ret.a) /\ LeqAnnual(solver.ret.a, solver.hiA)
       /\ \/ WithinOne(Objective(solver.ret.a, solver.target))
          \/ /\ solver.it = BisectIterations
             /\ solver.ret.a = Midpoint(solver.loA, solver.hiA)

----------------------------------------------------------------------------
(* Claims relating the two projections *)

BothProjected == pc = "projected"
PrefixMonths == 0..Min(monthsToRetire, monthsTo100)

\* C15: for every t <= min(monthsToRetire, monthsTo100), row t of
\* projectFullTo100 is max(0, row t of projectToRetirement); when the
\* retirement month lies in the full series its row shows max(0, wealthAtRetire).
C15_PrefixAgreement ==
  BothProjected =>
    /\ \A t \in PrefixMonths :
         /\ fullProjection[t + 1].m = accumulation[t + 1].m
         /\ fullProjection[t + 1].wealth = Max(0, accumulation[t + 1].wealth)
    /\ monthsToRetire <= monthsTo100 =>
         fullProjection[monthsToRetire + 1].wealth = Max(0, wealthAtRetire)

\* C15 witness: a plan with a lump sum and a year or more to retirement whose
\* accumulation goes negative at some month of the prefix and is positive at
\* another, both projections computed.
C15_Witness ==
  /\ BothProjected /\ lumpSums # <<>>
  /\ monthsToRetire >= MonthsPerYear /\ monthsToRetire <= monthsTo100
  /\ \E t \in PrefixMonths :
       accumulation[t + 1].wealth < 0 /\ fullProjection[t + 1].wealth = 0
  /\ \E t \in PrefixMonths \ {0} : fullProjection[t + 1].wealth > 0

\* the running value W of projectFullTo100 at the start of each iteration
RunningW ==
  FullTrace(age, currentWealth, monthsToRetire, monthlySaving, monthlyAccum,
            monthlyRetire, monthlySpend, lumpSums)

\* C16: with monthlySpend >= 0 and a monthly retirement rate above -100%, once
\* a row of a month t >= monthsToRetire shows 0 because the running value is
\* negative, every later row shows 0.
C16_ZeroAbsorbing ==
  (BothProjected /\ monthlySpend >= 0 /\ monthlyRetire > 0 - RateScale) =>
    LET ws == RunningW
    IN  \A t \in monthsToRetire..monthsTo100 :
          ws[t + 1] < 0 =>
            /\ fullProjection[t + 1].wealth = 0
            /\ \A u \in (t + 1)..monthsTo100 : fullProjection[u + 1].wealth = 0

\* C16 witness: during accumulation a zero row (negative running value) is
\* followed by a positive row; the plan then retires with a negative running
\* value and shows 0 for the months left.
C16_Witness ==
  /\ BothProjected /\ monthsToRetire >= 1 /\ monthsToRetire < monthsTo100
  /\ \E t \in 0..(monthsToRetire - 1) :
       /\ RunningW[t + 1] < 0 /\ fullProjection[t + 1].wealth = 0
       /\ fullProjection[t + 2].wealth > 0
  /\ RunningW[monthsToRetire + 1] < 0
  /\ fullProjection[monthsTo100 + 1].wealth = 0

----------------------------------------------------------------------------
(* Claims about the extra monthly saving *)

\* wealth at retirement of the plan re-run with monthlySaving + extra
WealthWithExtra(extra) ==
  LastWealth(projectToRetirement(currentWealth, monthlySaving + extra, monthsToRetire,
                                 monthlyAccum, lumpSums),
             currentWealth)

\* what rounding may account for: the extra is cut to a currency unit and every
\* month rounds once; a hundredth of the gap for the rate's last digit
RoundingSlack == gap \div 100 + 2 * monthsToRetire * (1 + MonthsPerYear)

CloseToTarget(w) == w - targetWealth <= RoundingSlack /\ targetWealth - w <= RoundingSlack

\* C17 as claimed: extraMonthlyNeeded is 0 when gap <= 0 or monthsToRetire <= 0;
\* otherwise the plan re-run with monthlySaving + extraMonthlyNeeded ends at
\* targetWealth within rounding, at every accumulation rate.
C17_ExtraClosesGap ==
  extraMonthlyNeeded # Pending =>
    /\ (gap <= 0 \/ monthsToRetire <= 0) => extraMonthlyNeeded = Num(0)
    /\ (gap > 0 /\ monthsToRetire > 0) => CloseToTarget(WealthWithExtra(extraMonthlyNeeded.a))

====
